---- MODULE Spec2Model ----
(***************************************************************************)
(* Model of the Divine admin panel server (src/unnamed/part_000, lines     *)
(* 218-879, the most complete revision): the access-control store, the     *)
(* decision engine and the HTTP handlers that touch them.                  *)
(*                                                                         *)
(* Strings are sequences of one-character strings, so that trimming,       *)
(* clamping, lower-casing and substring search are computed, not assumed.  *)
(* A JS object used as a map (accessStore.clients, accessStore.ipBans) is  *)
(* a function whose DOMAIN is the set of keys present.                     *)
(*                                                                         *)
(* Record fields that the server only writes and never reads back in a     *)
(* handler (firstSeenAt, verifiedAt, language, timezone, screen, ipFirst,  *)
(* ipLastSeenAt, and the createdAt/updatedAt of an IP ban) are left out,   *)
(* and so is the id of a broadcast (makeId: clock and Math.random).        *)
(*                                                                         *)
(* The site state (state, state.json, the WebSocket server) and the access *)
(* store do not read each other, so they are explored by specifications of *)
(* their own: Spec runs the access routes, SiteSpec the site routes and    *)
(* the sockets with a clock that passes the 24 hours of a broadcast, and   *)
(* AdminSpec every route behind requirePin together with the requests that *)
(* lack a required field.  A write of state.json or access.json succeeds  *)
(* in these; StorageSpec runs the site mutations on a disk whose writes    *)
(* can fail.  A handler runs at one instant of the clock.                  *)
(***************************************************************************)
EXTENDS Integers, Sequences, FiniteSets, TLC

\* ------------------------------------------------------------------ bounds
\* The clock Date.now() is a counter 1..MaxTime advanced by Tick.
MaxTime == 2
\* SiteSpec: the clock also jumps by a day less one millisecond, MaxDays times at most
MaxDays == 1
\* SiteSpec, ChannelSpec, AdminSpec: a socket is handed at most MaxSent messages
MaxSent == 3

\* ------------------------------------------------------- program constants
MaxBanMessageLen == 500
MaxUALen == 300
MaxPlatformLen == 80
\* 24 * 60 * 60 * 1000
BroadcastTTL == 86400000

\* ------------------------------------------------------------ string values
WS == {" ", "\t", "\n"}

UpperChars == << "A","B","C","D","E","F","G","H","I","J","K","L","M",
                 "N","O","P","Q","R","S","T","U","V","W","X","Y","Z" >>
LowerChars == << "a","b","c","d","e","f","g","h","i","j","k","l","m",
                 "n","o","p","q","r","s","t","u","v","w","x","y","z" >>

MinOf(S) == CHOOSE x \in S : \A y \in S : x <= y
MaxOf(S) == CHOOSE x \in S : \A y \in S : x >= y

\* String.prototype.trim
Trim(s) ==
  LET idx == { i \in 1..Len(s) : s[i] \notin WS }
  IN  IF idx = {} THEN << >> ELSE SubSeq(s, MinOf(idx), MaxOf(idx))

\* String.prototype.toLowerCase
LowerChar(c) ==
  IF \E i \in 1..26 : UpperChars[i] = c
    THEN LowerChars[CHOOSE i \in 1..26 : UpperChars[i] = c]
    ELSE c
toLowerCase(s) == [ i \in 1..Len(s) |-> LowerChar(s[i]) ]

\* String.prototype.includes, for a non-empty needle
includes(s, sub) ==
  \E i \in 1..(Len(s) - Len(sub) + 1) : SubSeq(s, i, i + Len(sub) - 1) = sub

\* normalizeStr: every input of the model is a string, so only the trim is left
normalizeStr(x) == Trim(x)

\* clampStr: trim, then cut to maxLen characters
clampStr(s, maxLen) ==
  LET x == normalizeStr(s)
  IN  IF x = << >> THEN << >>
      ELSE IF Len(x) <= maxLen THEN x
      ELSE SubSeq(x, 1, maxLen)

formatUA(ua) == clampStr(ua, MaxUALen)

\* ------------------------------------------------------------------ inputs
ClientA == << "a", "b", "c" >>
ClientIDs == { ClientA }
\* req.body.clientID as sent: blank, or the token with blanks around it
RawClientIDs == { << " " >>, << " " >> \o ClientA \o << " " >> }

IP1 == << "1", ".", "2" >>
IP2 == << "5", ".", "6" >>
\* req.ip as Express reports it
RequestIPs == { IP1, IP2 }
\* req.body.ip as an operator types it
RawIPs == { << " " >>, << " " >> \o IP1 }

UAPhone == << "i","P","h","o","n","e" >>
UAWindows == << "W","i","n","d","o","w","s"," ","N","T" >>
UAMac == << "M","a","c"," ","O","S"," ","X" >>
PlatWin == << "W","i","n","3","2" >>
PlatMac == << "M","a","c","I","n","t","e","l" >>
\* the User-Agent header of a request
HeaderUAs == { UAPhone, UAWindows }
\* req.body.device of /api/hello: none, or an object with ua and platform
NoDevice == [ present |-> FALSE, ua |-> << >>, platform |-> << >> ]
Devices == { NoDevice,
             [ present |-> TRUE, ua |-> UAMac,   platform |-> << >> ],
             [ present |-> TRUE, ua |-> UAPhone, platform |-> PlatWin ],
             [ present |-> TRUE, ua |-> UAPhone, platform |-> PlatMac ] }

MsgSpam == << "s", "p", "a", "m" >>
\* 501 characters: "a", 499 blanks, "b"; cut to 500 it ends in blanks
MsgLong == << "a" >> \o [ i \in 1..499 |-> " " ] \o << "b" >>
MsgRude == << "r", "u", "d", "e" >>
\* req.body.banMessage of /api/admin/ban and of /api/admin/ban-ip
RawBanMessages == { MsgSpam, << " " >> \o MsgRude }
RawIPBanMessages == { << " " >> \o MsgSpam, MsgLong }

PinAdmin == << "A" >>
PinAuth == << "1" >>
PinUnban == << "2" >>

Statuses == { "unverified", "verified", "suspicious", "banned" }

\* ------------------------------------------------------------------- state
VARIABLES
  lockdown,   \* accessStore.lockdown
  clients,    \* accessStore.clients: clientID -> record
  ipBans,     \* accessStore.ipBans: ip -> [message]
  accessFile, \* access.json: << >> when missing, else << the store written >>
  now,        \* Date.now()
  env,        \* ADMIN_PIN, AUTH_PIN, UNBAN_PIN as read at start-up
  last,       \* the last request served and the response it got
  state,      \* state: the site lockdown and the broadcast
  stateFile,  \* state.json: << >> when missing, else << the state written >>
  wssClients, \* wss.clients: socket -> [readyState, throws, sent]
  diskOK,     \* fs.writeFileSync succeeds (when not, it throws)
  out         \* the GET /api/state exchange just served

vars ==
  << lockdown, clients, ipBans, accessFile, now, env, last, state, stateFile, wssClients,
     diskOK, out >>

accessVars == << lockdown, clients, ipBans, accessFile, last >>
siteVars == << state, stateFile, wssClients, diskOK, out >>

\* accessStore, and with it the file it is saved to
access ==
  [ lockdown |-> lockdown, clients |-> clients, ipBans |-> ipBans, file |-> accessFile,
    writable |-> diskOK ]

nowMs == now

\* ---------------------------------------------------------------- AccessStore
\* mutant: the "suspicious" line is missing, so the status falls to the default
normalizeLegacyStatusNoSuspicious(status) ==
  IF status = "unbanned" THEN "unverified"
  ELSE IF status \in Statuses \ { "suspicious" } THEN status
  ELSE "unverified"

normalizeLegacyStatus(status) ==
  IF status = "unbanned" THEN "unverified"
  ELSE IF status \in Statuses THEN status
  ELSE "unverified"

\* JSON.stringify(accessStore)
AccessDoc(store) ==
  [ lockdown |-> store.lockdown, clients |-> store.clients, ipBans |-> store.ipBans ]

\* loadAccess(): a missing file leaves the defaults
loadAccess(file) ==
  IF file = << >> THEN [ lockdown |-> FALSE, clients |-> << >>, ipBans |-> << >> ]
  ELSE file[1]

\* saveAccess(): a write that throws is caught and leaves the file as it was
saveAccess(store) ==
  IF store.writable THEN [ store EXCEPT !.file = << AccessDoc(store) >> ] ELSE store

NewRecord(t) ==
  [ status |-> "unverified", lastSeenAt |-> t, suspiciousAt |-> 0,
    ua |-> << >>, platform |-> << >>, ipLast |-> << >>, banMessage |-> << >> ]

\* ensureClientRecord(clientID), for a non-empty normalized id:
\* the store after the call (the record is then store.clients[id])
ensureClientRecord(store, id, t) ==
  IF id \in DOMAIN store.clients
    THEN [ store EXCEPT !.clients[id].lastSeenAt = t,
                        !.clients[id].status = normalizeLegacyStatus(@) ]
    ELSE saveAccess([ store EXCEPT !.clients =
                        [ k \in (DOMAIN store.clients) \cup { id } |->
                            IF k = id THEN NewRecord(t) ELSE store.clients[k] ] ])

\* mutant: ua and platform are overwritten only when the request carries a device
recordClientTelemetryKeepsDevice(store, ip, hdrUA, clientID, device, t) ==
  LET id == normalizeStr(clientID) IN
  IF id = << >> THEN store
  ELSE
    LET s1  == ensureClientRecord(store, id, t)
        rip == normalizeStr(ip)
        ua  == formatUA(hdrUA)
        dua == IF device.present /\ device.ua # << >> THEN device.ua ELSE ua
    IN  saveAccess(
          [ s1 EXCEPT !.clients[id].ipLast = IF rip # << >> THEN rip ELSE @,
                      !.clients[id].ua = IF device.present \/ @ = << >> THEN formatUA(dua) ELSE @,
                      !.clients[id].platform =
                        IF device.present THEN clampStr(device.platform, MaxPlatformLen) ELSE @,
                      !.clients[id].lastSeenAt = t ])

\* recordClientTelemetry(req, clientID, device)
recordClientTelemetry(store, ip, hdrUA, clientID, device, t) ==
  LET id == normalizeStr(clientID) IN
  IF id = << >> THEN store
  ELSE
    LET s1  == ensureClientRecord(store, id, t)
        rip == normalizeStr(ip)
        ua  == formatUA(hdrUA)
        dua == IF device.present /\ device.ua # << >> THEN device.ua ELSE ua
        dpl == IF device.present THEN device.platform ELSE << >>
    IN  saveAccess([ s1 EXCEPT !.clients[id].ipLast = IF rip # << >> THEN rip ELSE @,
                               !.clients[id].ua = formatUA(dua),
                               !.clients[id].platform = clampStr(dpl, MaxPlatformLen),
                               !.clients[id].lastSeenAt = t ])

isDesktopish(rec) ==
  LET ua == toLowerCase(rec.ua)
      platform == toLowerCase(rec.platform)
  IN  \/ includes(platform, << "w","i","n" >>)
      \/ includes(platform, << "m","a","c" >>)
      \/ includes(ua, << "w","i","n","d","o","w","s" >>)
      \/ includes(ua, << "m","a","c"," ","o","s" >>)

\* ------------------------------------------------------------ DecisionEngine
\* A decision object; a field the code leaves out is "" (status, reason) or << >>.
Decision(banned, allowed, reason, status, banMessage) ==
  [ banned |-> banned, allowed |-> allowed, reason |-> reason,
    status |-> status, banMessage |-> banMessage ]

\* ipBanDecision(ip) # null
ipBanDecision(store, ip) ==
  LET x == normalizeStr(ip) IN x # << >> /\ x \in DOMAIN store.ipBans

\* mutant: the lockdown test of the token-less branch is missing
missingClientAlwaysAllowed(store) ==
  Decision(FALSE, TRUE, "missing_client_id_allowed", "", << >>)

\* if (!id) { ... }: the decision for a request without a client token
missingClientDecision(store) ==
  IF store.lockdown
    THEN Decision(TRUE, FALSE, "missing_client_id", "", << >>)
    ELSE Decision(FALSE, TRUE, "missing_client_id_allowed", "", << >>)

\* mutant: the suspicious step is missing, so a suspicious record falls through
suspiciousStepMissing(rec) == FALSE
\* mutant: the heuristic does not look at the status
heuristicStepAnyStatus(rec) == isDesktopish(rec)

\* the guards of the three steps that look at a known record
bannedStep(rec) == rec.status = "banned"
suspiciousStep(rec) == rec.status = "suspicious"
heuristicStep(rec) == rec.status = "unverified" /\ isDesktopish(rec)

\* mutant: a denial under access-lockdown does not say banned
lockdownDecisionNotBanned(store, id) ==
  IF id \notin DOMAIN store.clients
    THEN Decision(FALSE, FALSE, "lockdown_unknown", "", << >>)
    ELSE LET st == normalizeLegacyStatus(store.clients[id].status) IN
         IF st # "verified"
           THEN Decision(FALSE, FALSE, "lockdown_not_verified", st, << >>)
           ELSE Decision(FALSE, TRUE, "lockdown_verified", st, << >>)

\* if (accessStore.lockdown) { ... }: the decision under access-lockdown
lockdownDecision(store, id) ==
  IF id \notin DOMAIN store.clients
    THEN Decision(TRUE, FALSE, "lockdown_unknown", "", << >>)
    ELSE LET st == normalizeLegacyStatus(store.clients[id].status) IN
         IF st # "verified"
           THEN Decision(TRUE, FALSE, "lockdown_not_verified", st, << >>)
           ELSE Decision(FALSE, TRUE, "lockdown_verified", st, << >>)

\* computeAccessDecision(req, clientID): the decision and the store after it
computeAccessDecision(store, ip, clientID, t) ==
  LET id == normalizeStr(clientID)
      x  == normalizeStr(ip)
  IN
  IF ipBanDecision(store, ip)
    THEN [ store |-> store,
           decision |-> Decision(TRUE, FALSE, "ip_ban", "",
                                 clampStr(store.ipBans[x].message, MaxBanMessageLen)) ]
  ELSE IF id = << >>
    THEN [ store |-> store, decision |-> missingClientDecision(store) ]
  ELSE
    LET isKnown == id \in DOMAIN store.clients
        s1 == IF isKnown
                THEN [ store EXCEPT !.clients[id].status = normalizeLegacyStatus(@) ]
                ELSE store
    IN
    IF isKnown /\ bannedStep(s1.clients[id])
      THEN [ store |-> s1,
             decision |-> Decision(TRUE, FALSE, "client_ban", "banned",
                                   clampStr(s1.clients[id].banMessage, MaxBanMessageLen)) ]
    ELSE IF isKnown /\ suspiciousStep(s1.clients[id])
      THEN [ store |-> s1,
             decision |-> Decision(FALSE, TRUE, "client_suspicious", "suspicious", << >>) ]
    ELSE IF isKnown /\ heuristicStep(s1.clients[id])
      THEN [ store |-> saveAccess([ s1 EXCEPT !.clients[id].status = "suspicious",
                                              !.clients[id].suspiciousAt = t ]),
             decision |-> Decision(FALSE, TRUE, "desktop_unverified_marked_suspicious",
                                   "suspicious", << >>) ]
    ELSE IF s1.lockdown
      THEN [ store |-> s1, decision |-> lockdownDecision(s1, id) ]
    ELSE [ store |-> s1,
           decision |-> Decision(FALSE, TRUE,
                                 IF isKnown THEN "known_allowed" ELSE "unknown_allowed",
                                 IF isKnown THEN s1.clients[id].status ELSE "unverified",
                                 << >>) ]

\* mutant: the "ADMIN_PIN is unset" test is missing
requirePinUnsetPasses(pin) == pin = env.ADMIN_PIN

\* requirePin passes
requirePin(pin) == env.ADMIN_PIN # << >> /\ pin = env.ADMIN_PIN

\* ------------------------------------------------------- requests, responses
\* A handler is an operator from the store and the request to the store after it,
\* the HTTP status code and the JSON body (a field a response lacks is "" or FALSE).
Body(ok, allowed, banned, status, reason, banMessage, error) ==
  [ ok |-> ok, allowed |-> allowed, banned |-> banned, status |-> status,
    reason |-> reason, banMessage |-> banMessage, error |-> error ]

Fail(error) == Body(FALSE, FALSE, FALSE, "", "", << >>, error)
OkStatus(status) == Body(TRUE, FALSE, FALSE, status, "", << >>, "")
OkAllowed(allowed) == Body(TRUE, allowed, FALSE, "", "", << >>, "")

Reply(store, code, body) == [ store |-> store, code |-> code, body |-> body ]

StatusOf(store, id) == IF id \in DOMAIN store.clients THEN store.clients[id].status ELSE "none"

\* rec.status = ..., rec.banMessage = ..., rec.lastSeenAt = nowMs() after
\* ensureClientRecord, and the saveAccess() that follows them
SetClient(store, id, status, banMessage, t) ==
  saveAccess([ ensureClientRecord(store, id, t) EXCEPT !.clients[id].status = status,
                                                       !.clients[id].banMessage = banMessage,
                                                       !.clients[id].lastSeenAt = t ])

\* POST /api/hello
hello(store, rawID, ip, hdrUA, device, t) ==
  LET clientID == normalizeStr(rawID) IN
  IF clientID = << >> THEN Reply(store, 400, Fail("clientID required"))
  ELSE LET s1 == recordClientTelemetry(store, ip, hdrUA, clientID, device, t)
           s2 == ensureClientRecord(s1, clientID, t)
       IN  Reply(s2, 200, OkStatus(normalizeLegacyStatus(s2.clients[clientID].status)))

\* mutant: the "AUTH_PIN is unset" guard is missing
authWithoutUnsetGuard(store, rawID, ip, hdrUA, rawPin, t) ==
  LET clientID == normalizeStr(rawID)
      pinAttempt == normalizeStr(rawPin)
      s1 == IF clientID # << >>
              THEN recordClientTelemetry(store, ip, hdrUA, clientID, NoDevice, t)
              ELSE store
      allowed == pinAttempt = env.AUTH_PIN
  IN  IF allowed /\ clientID # << >>
        THEN Reply(SetClient(s1, clientID, "verified", s1.clients[clientID].banMessage, t),
                   200, OkAllowed(allowed))
        ELSE Reply(s1, 200, OkAllowed(allowed))

\* POST /api/auth
auth(store, rawID, ip, hdrUA, rawPin, t) ==
  LET clientID == normalizeStr(rawID)
      pinAttempt == normalizeStr(rawPin)
      s1 == IF clientID # << >>
              THEN recordClientTelemetry(store, ip, hdrUA, clientID, NoDevice, t)
              ELSE store
  IN  IF env.AUTH_PIN = << >> THEN Reply(s1, 200, OkAllowed(FALSE))
      ELSE LET allowed == pinAttempt = env.AUTH_PIN IN
           IF allowed /\ clientID # << >>
             THEN Reply(SetClient(s1, clientID, "verified", s1.clients[clientID].banMessage, t),
                        200, OkAllowed(allowed))
             ELSE Reply(s1, 200, OkAllowed(allowed))

\* mutant: /api/check does not record the request before it decides
checkTelemetrySkipped(store, rawID, ip, hdrUA, t) == store

\* POST /api/check, up to the call of computeAccessDecision
checkTelemetry(store, rawID, ip, hdrUA, t) ==
  LET clientID == normalizeStr(rawID) IN
  IF clientID # << >>
    THEN recordClientTelemetry(store, ip, hdrUA, clientID, NoDevice, t)
    ELSE store

\* POST /api/check
check(store, rawID, ip, hdrUA, t) ==
  LET clientID == normalizeStr(rawID)
      s1 == checkTelemetry(store, rawID, ip, hdrUA, t)
      r  == computeAccessDecision(s1, ip, clientID, t)
      d  == r.decision
  IN  Reply(r.store, 200,
            Body(TRUE, d.allowed, d.banned, IF d.status = "" THEN "unverified" ELSE d.status,
                 d.reason, d.banMessage, ""))

\* mutant: the "UNBAN_PIN is unset" guard is missing
unbanWithoutUnsetGuard(store, rawID, ip, hdrUA, rawPin, t) ==
  LET clientID == normalizeStr(rawID)
      pinAttempt == normalizeStr(rawPin)
  IN  IF clientID = << >> THEN Reply(store, 400, Fail("clientID required"))
      ELSE LET s1 == recordClientTelemetry(store, ip, hdrUA, clientID, NoDevice, t) IN
           IF pinAttempt # env.UNBAN_PIN THEN Reply(s1, 200, OkAllowed(FALSE))
           ELSE Reply(SetClient(s1, clientID, "unverified", << >>, t), 200, OkAllowed(TRUE))

\* POST /api/unban
unban(store, rawID, ip, hdrUA, rawPin, t) ==
  LET clientID == normalizeStr(rawID)
      pinAttempt == normalizeStr(rawPin)
  IN  IF clientID = << >> THEN Reply(store, 400, Fail("clientID required"))
      ELSE LET s1 == recordClientTelemetry(store, ip, hdrUA, clientID, NoDevice, t) IN
           IF env.UNBAN_PIN = << >> THEN Reply(s1, 200, OkAllowed(FALSE))
           ELSE IF pinAttempt # env.UNBAN_PIN THEN Reply(s1, 200, OkAllowed(FALSE))
           ELSE Reply(SetClient(s1, clientID, "unverified", << >>, t), 200, OkAllowed(TRUE))

Unauthorized(store) == Reply(store, 401, Fail("Unauthorized"))

\* POST /api/admin/verify
adminVerify(store, pin, rawID, t) ==
  LET clientID == normalizeStr(rawID) IN
  IF ~requirePin(pin) THEN Unauthorized(store)
  ELSE IF clientID = << >> THEN Reply(store, 400, Fail("clientID required"))
  ELSE LET s1 == ensureClientRecord(store, clientID, t)
           s2 == SetClient(store, clientID, "verified", s1.clients[clientID].banMessage, t)
       IN  Reply(s2, 200, OkStatus(s2.clients[clientID].status))

\* POST /api/admin/suspicious
adminSuspicious(store, pin, rawID, t) ==
  LET clientID == normalizeStr(rawID) IN
  IF ~requirePin(pin) THEN Unauthorized(store)
  ELSE IF clientID = << >> THEN Reply(store, 400, Fail("clientID required"))
  ELSE LET s1 == ensureClientRecord(store, clientID, t)
           s2 == saveAccess(
                   [ SetClient(store, clientID, "suspicious", s1.clients[clientID].banMessage, t)
                       EXCEPT !.clients[clientID].suspiciousAt = t ])
       IN  Reply(s2, 200, OkStatus(s2.clients[clientID].status))

\* mutant: the "only if suspicious" test is missing
adminClearSuspiciousAnyStatus(store, pin, rawID, t) ==
  LET clientID == normalizeStr(rawID) IN
  IF ~requirePin(pin) THEN Unauthorized(store)
  ELSE IF clientID = << >> THEN Reply(store, 400, Fail("clientID required"))
  ELSE LET s2 == SetClient(store, clientID, "unverified",
                           ensureClientRecord(store, clientID, t).clients[clientID].banMessage, t)
       IN  Reply(s2, 200, OkStatus(s2.clients[clientID].status))

\* POST /api/admin/clear-suspicious
adminClearSuspicious(store, pin, rawID, t) ==
  LET clientID == normalizeStr(rawID) IN
  IF ~requirePin(pin) THEN Unauthorized(store)
  ELSE IF clientID = << >> THEN Reply(store, 400, Fail("clientID required"))
  ELSE LET s1 == ensureClientRecord(store, clientID, t)
           s2 == IF normalizeLegacyStatus(s1.clients[clientID].status) = "suspicious"
                   THEN saveAccess([ s1 EXCEPT !.clients[clientID].status = "unverified",
                                               !.clients[clientID].lastSeenAt = t ])
                   ELSE s1
       IN  Reply(s2, 200, OkStatus(normalizeLegacyStatus(s2.clients[clientID].status)))

\* mutant: a client that is already banned keeps its first ban message
adminBanKeepsFirstMessage(store, pin, rawID, rawMessage, t) ==
  LET clientID == normalizeStr(rawID)
      banMessage == clampStr(rawMessage, MaxBanMessageLen)
  IN  IF ~requirePin(pin) THEN Unauthorized(store)
      ELSE IF clientID = << >> THEN Reply(store, 400, Fail("clientID required"))
      ELSE LET old == StatusOf(store, clientID)
               s2 == SetClient(store, clientID, "banned",
                               IF old = "banned" THEN store.clients[clientID].banMessage
                                                 ELSE banMessage, t)
           IN  Reply(s2, 200, OkStatus(s2.clients[clientID].status))

\* POST /api/admin/ban
adminBan(store, pin, rawID, rawMessage, t) ==
  LET clientID == normalizeStr(rawID)
      banMessage == clampStr(rawMessage, MaxBanMessageLen)
  IN  IF ~requirePin(pin) THEN Unauthorized(store)
      ELSE IF clientID = << >> THEN Reply(store, 400, Fail("clientID required"))
      ELSE LET s2 == SetClient(store, clientID, "banned", banMessage, t)
           IN  Reply(s2, 200, OkStatus(s2.clients[clientID].status))

\* POST /api/admin/unban
adminUnban(store, pin, rawID, t) ==
  LET clientID == normalizeStr(rawID) IN
  IF ~requirePin(pin) THEN Unauthorized(store)
  ELSE IF clientID = << >> THEN Reply(store, 400, Fail("clientID required"))
  ELSE LET s2 == SetClient(store, clientID, "unverified", << >>, t)
       IN  Reply(s2, 200, OkStatus(s2.clients[clientID].status))

\* POST /api/admin/ban-ip
adminBanIP(store, pin, rawIP, rawMessage) ==
  LET ip == normalizeStr(rawIP)
      banMessage == clampStr(rawMessage, MaxBanMessageLen)
  IN  IF ~requirePin(pin) THEN Unauthorized(store)
      ELSE IF ip = << >> THEN Reply(store, 400, Fail("ip required"))
      ELSE Reply(saveAccess([ store EXCEPT !.ipBans =
                     [ k \in (DOMAIN store.ipBans) \cup { ip } |->
                         IF k = ip THEN [ message |-> banMessage ] ELSE store.ipBans[k] ] ]),
                 200, Body(TRUE, FALSE, TRUE, "", "", << >>, ""))

\* POST /api/admin/unban-ip
adminUnbanIP(store, pin, rawIP) ==
  LET ip == normalizeStr(rawIP) IN
  IF ~requirePin(pin) THEN Unauthorized(store)
  ELSE IF ip = << >> THEN Reply(store, 400, Fail("ip required"))
  ELSE Reply(IF ip \in DOMAIN store.ipBans
               THEN saveAccess([ store EXCEPT !.ipBans =
                                   [ k \in (DOMAIN store.ipBans) \ { ip } |-> store.ipBans[k] ] ])
               ELSE store,
             200, Body(TRUE, FALSE, FALSE, "", "", << >>, ""))

\* mutant: turning the access-lockdown on or off also lifts every IP ban
adminLockdownLiftsIPBans(store, pin, enabled) ==
  IF ~requirePin(pin) THEN Unauthorized(store)
  ELSE Reply(saveAccess([ store EXCEPT !.lockdown = enabled, !.ipBans = << >> ]),
             200, OkStatus(""))

\* POST /api/admin/lockdown
adminLockdown(store, pin, enabled) ==
  IF ~requirePin(pin) THEN Unauthorized(store)
  ELSE Reply(saveAccess([ store EXCEPT !.lockdown = enabled ]), 200, OkStatus(""))

\* ------------------------------------------------------------------ SiteState
\* null
Null == << >>

\* a value that may be null is << >> or << the object >>
DefaultState == [ lockdown |-> [ enabled |-> FALSE, updatedAt |-> 0 ], broadcast |-> Null ]

site ==
  [ state |-> state, stateFile |-> stateFile, wssClients |-> wssClients, writable |-> diskOK ]

\* loadState: state.json missing leaves the defaults, else its content is taken
loadState(file) == IF file = << >> THEN DefaultState ELSE file[1]

\* saveState(): a write that throws is caught and leaves the file as it was
saveState(s) == IF s.writable THEN [ s EXCEPT !.stateFile = << s.state >> ] ELSE s

\* mutant: a broadcast is still served at the instant it expires
pruneExpiredBroadcastLate(s, t) ==
  IF s.state.broadcast = Null THEN s
  ELSE IF t > s.state.broadcast[1].expiresAt
    THEN saveState([ s EXCEPT !.state.broadcast = Null ])
    ELSE s

pruneExpiredBroadcast(s, t) ==
  IF s.state.broadcast = Null THEN s
  ELSE IF t >= s.state.broadcast[1].expiresAt
    THEN saveState([ s EXCEPT !.state.broadcast = Null ])
    ELSE s

\* ------------------------------------------------------------------ WebSocket
\* the sockets that connect, numbered in the order wss.clients holds them
SocketIDs == { 1, 2 }
FirstSocket == MinOf(SocketIDs)
\* readyState of a socket held in wss.clients
OPEN == 1
CLOSING == 2

StateMsg(st) == [ type |-> "state", lockdown |-> st.lockdown, broadcast |-> st.broadcast ]
BroadcastMsg(b) == [ type |-> "broadcast", broadcast |-> << b >> ]
LockdownMsg(enabled, updatedAt) ==
  [ type |-> "lockdown", enabled |-> enabled, updatedAt |-> updatedAt ]

\* try { ws.send(msg) } catch (e) {}: the call is made; `threw` tells whether it threw
TrySend(ws, msg) == [ ws EXCEPT !.sent = Append(@, [ msg |-> msg, threw |-> ws.throws ]) ]

safeSend(s, id, obj) == [ s EXCEPT !.wssClients[id] = TrySend(@, obj) ]

\* mutant: without the try/catch the loop ends at the first send that throws
\* (wss.clients is walked in the order the sockets were numbered)
broadcastWSUnguarded(s, obj) ==
  LET threw(j) == s.wssClients[j].readyState = OPEN /\ s.wssClients[j].throws
  IN  [ s EXCEPT !.wssClients =
          [ id \in DOMAIN s.wssClients |->
              IF /\ s.wssClients[id].readyState = OPEN
                 /\ ~\E j \in DOMAIN s.wssClients : j < id /\ threw(j)
                THEN TrySend(s.wssClients[id], obj)
                ELSE s.wssClients[id] ] ]

\* mutant: the event goes to every socket, open or not
broadcastWSAnyReadyState(s, obj) ==
  [ s EXCEPT !.wssClients = [ id \in DOMAIN s.wssClients |-> TrySend(s.wssClients[id], obj) ] ]

broadcastWS(s, obj) ==
  [ s EXCEPT !.wssClients =
      [ id \in DOMAIN s.wssClients |->
          IF s.wssClients[id].readyState = OPEN
            THEN TrySend(s.wssClients[id], obj)
            ELSE s.wssClients[id] ] ]

\* mutant: the snapshot is taken before the expired broadcast is pruned
connectionUnpruned(s, id, t) ==
  LET s1 == [ s EXCEPT !.wssClients =
                [ k \in (DOMAIN s.wssClients) \cup { id } |->
                    IF k = id THEN [ readyState |-> OPEN, throws |-> FALSE, sent |-> << >> ]
                              ELSE s.wssClients[k] ] ]
  IN  pruneExpiredBroadcast(safeSend(s1, id, StateMsg(s1.state)), t)

\* wss.on("connection"): the socket joins wss.clients, open, and gets the snapshot
connection(s, id, t) ==
  LET s1 == [ s EXCEPT !.wssClients =
                [ k \in (DOMAIN s.wssClients) \cup { id } |->
                    IF k = id THEN [ readyState |-> OPEN, throws |-> FALSE, sent |-> << >> ]
                              ELSE s.wssClients[k] ] ]
      s2 == pruneExpiredBroadcast(s1, t)
  IN  safeSend(s2, id, StateMsg(s2.state))

\* ---------------------------------------------------------------- site routes
SiteBody(ok, lock, broadcast, error) ==
  [ ok |-> ok, lockdown |-> lock, broadcast |-> broadcast, error |-> error ]
SiteFail(error) == SiteBody(FALSE, Null, Null, error)
SiteReply(s, code, body) == [ site |-> s, code |-> code, body |-> body ]

\* GET /health
health(s, t) == SiteReply(pruneExpiredBroadcast(s, t), 200, SiteBody(TRUE, Null, Null, ""))

\* mutant: the state is served without pruning the broadcast
getStateUnpruned(s, t) ==
  SiteReply(s, 200, SiteBody(TRUE, << s.state.lockdown >>, s.state.broadcast, ""))

\* GET /api/state
getState(s, t) ==
  LET s1 == pruneExpiredBroadcast(s, t)
  IN  SiteReply(s1, 200, SiteBody(TRUE, << s1.state.lockdown >>, s1.state.broadcast, ""))

\* mutant: an empty message is published like any other
broadcastEmptyAccepted(s, pin, rawMessage, t) ==
  LET msg == Trim(rawMessage)
      b == [ message |-> msg, createdAt |-> t, expiresAt |-> t + BroadcastTTL ]
  IN  IF ~requirePin(pin) THEN SiteReply(s, 401, SiteFail("Unauthorized"))
      ELSE SiteReply(broadcastWS(saveState([ s EXCEPT !.state.broadcast = << b >> ]),
                                 BroadcastMsg(b)),
                     IF msg = << >> THEN 400 ELSE 200,
                     IF msg = << >> THEN SiteFail("message required")
                                    ELSE SiteBody(TRUE, Null, << b >>, ""))

\* POST /api/broadcast
broadcast(s, pin, rawMessage, t) ==
  LET msg == Trim(rawMessage)
      b == [ message |-> msg, createdAt |-> t, expiresAt |-> t + BroadcastTTL ]
  IN  IF ~requirePin(pin) THEN SiteReply(s, 401, SiteFail("Unauthorized"))
      ELSE IF msg = << >> THEN SiteReply(s, 400, SiteFail("message required"))
      ELSE SiteReply(broadcastWS(saveState([ s EXCEPT !.state.broadcast = << b >> ]),
                                 BroadcastMsg(b)),
                     200, SiteBody(TRUE, Null, << b >>, ""))

\* POST /api/lockdown (enabled = TRUE) and POST /api/clear-lockdown (enabled = FALSE)
\* mutant: the change of the site lockdown is saved and not fanned out
setSiteLockdownSilent(s, pin, enabled, t) ==
  IF ~requirePin(pin) THEN SiteReply(s, 401, SiteFail("Unauthorized"))
  ELSE LET s1 == saveState([ s EXCEPT !.state.lockdown = [ enabled |-> enabled, updatedAt |-> t ] ])
       IN  SiteReply(s1, 200, SiteBody(TRUE, << s1.state.lockdown >>, Null, ""))

setSiteLockdown(s, pin, enabled, t) ==
  IF ~requirePin(pin) THEN SiteReply(s, 401, SiteFail("Unauthorized"))
  ELSE LET s1 == saveState([ s EXCEPT !.state.lockdown = [ enabled |-> enabled, updatedAt |-> t ] ])
       IN  SiteReply(broadcastWS(s1, LockdownMsg(enabled, s1.state.lockdown.updatedAt)),
                     200, SiteBody(TRUE, << s1.state.lockdown >>, Null, ""))

siteLockdown(s, pin, t) == setSiteLockdown(s, pin, TRUE, t)
clearLockdown(s, pin, t) == setSiteLockdown(s, pin, FALSE, t)

\* ------------------------------------------------------------------ actions
\* `last` is the /api/check exchange just served: the clientID and ip the handler
\* read, the client's status and suspiciousAt when the request arrived and when
\* computeAccessDecision was entered ("none": no record), and the response body.
\* A step of any other operation sets it back to NoCheck, so in a state where
\* last.op = "check" the store is the one that check left.
NoCheck ==
  [ op |-> "other", clientID |-> << >>, ip |-> << >>, statusBefore |-> "none",
    statusAtDecision |-> "none", suspiciousAtBefore |-> 0, body |-> Fail("") ]

StatusIn(store, id) == IF id \in DOMAIN store.clients THEN store.clients[id].status ELSE "none"
SuspiciousAtIn(store, id) ==
  IF id \in DOMAIN store.clients THEN store.clients[id].suspiciousAt ELSE 0

\* a record written by the older revision of the server (no telemetry, status "unbanned")
LegacyRecord ==
  [ status |-> "unbanned", lastSeenAt |-> 1, suspiciousAt |-> 0,
    ua |-> << >>, platform |-> << >>, ipLast |-> << >>, banMessage |-> << >> ]

\* `out` is the GET /api/state exchange just served: the broadcast the server held when
\* the request came, and the response body.  Any other step sets it back to NoResponse.
NoResponse == [ op |-> "other", before |-> Null, body |-> SiteFail("") ]

Serve(reply) ==
  /\ lockdown' = reply.store.lockdown
  /\ clients' = reply.store.clients
  /\ ipBans' = reply.store.ipBans
  /\ accessFile' = reply.store.file
  /\ last' = NoCheck
  /\ UNCHANGED siteVars

\* access.json as an earlier run of the server left it: missing, or with one record
\* of the older revision
StartAccessFiles ==
  { << >>,
    << [ lockdown |-> FALSE, clients |-> [ k \in { ClientA } |-> LegacyRecord ],
         ipBans |-> << >> ] >> }

\* Start-up: the PINs are all configured or all unset; loadAccess() has read
\* access.json.
Init ==
  /\ accessFile \in StartAccessFiles
  /\ lockdown = loadAccess(accessFile).lockdown
  /\ clients = loadAccess(accessFile).clients
  /\ ipBans = loadAccess(accessFile).ipBans
  /\ now = 1
  /\ env \in { [ ADMIN_PIN |-> PinAdmin, AUTH_PIN |-> PinAuth, UNBAN_PIN |-> PinUnban ],
                [ ADMIN_PIN |-> << >>, AUTH_PIN |-> << >>, UNBAN_PIN |-> << >> ] }
  /\ last = NoCheck
  /\ state = DefaultState
  /\ stateFile = << >>
  /\ wssClients = << >>
  /\ diskOK = TRUE
  /\ out = NoResponse

Tick ==
  /\ now < MaxTime
  /\ now' = now + 1
  /\ UNCHANGED << lockdown, clients, ipBans, accessFile, env, last >>
  /\ UNCHANGED siteVars

Hello(rawID, ip, hdrUA, device) ==
  LET reply == hello(access, rawID, ip, hdrUA, device, nowMs)
  IN  /\ Serve(reply)
      /\ UNCHANGED << now, env >>

Auth(rawID, ip, hdrUA, rawPin) ==
  LET reply == auth(access, rawID, ip, hdrUA, rawPin, nowMs)
  IN  /\ Serve(reply)
      /\ UNCHANGED << now, env >>

Check(rawID, ip, hdrUA) ==
  LET reply == check(access, rawID, ip, hdrUA, nowMs)
      id == normalizeStr(rawID)
      entered == checkTelemetry(access, rawID, ip, hdrUA, nowMs)
  IN  /\ lockdown' = reply.store.lockdown
      /\ clients' = reply.store.clients
      /\ ipBans' = reply.store.ipBans
      /\ accessFile' = reply.store.file
      /\ last' = [ op |-> "check", clientID |-> id, ip |-> normalizeStr(ip),
                   statusBefore |-> StatusIn(access, id),
                   statusAtDecision |-> StatusIn(entered, id),
                   suspiciousAtBefore |-> SuspiciousAtIn(access, id),
                   body |-> reply.body ]
      /\ UNCHANGED << now, env >>
      /\ UNCHANGED siteVars

Unban(rawID, ip, hdrUA, rawPin) ==
  LET reply == unban(access, rawID, ip, hdrUA, rawPin, nowMs)
  IN  /\ Serve(reply)
      /\ UNCHANGED << now, env >>

AdminVerify(pin, rawID) ==
  LET reply == adminVerify(access, pin, rawID, nowMs)
  IN  /\ Serve(reply)
      /\ UNCHANGED << now, env >>

AdminSuspicious(pin, rawID) ==
  LET reply == adminSuspicious(access, pin, rawID, nowMs)
  IN  /\ Serve(reply)
      /\ UNCHANGED << now, env >>

AdminClearSuspicious(pin, rawID) ==
  LET reply == adminClearSuspicious(access, pin, rawID, nowMs)
  IN  /\ Serve(reply)
      /\ UNCHANGED << now, env >>

AdminBan(pin, rawID, rawMessage) ==
  LET reply == adminBan(access, pin, rawID, rawMessage, nowMs)
  IN  /\ Serve(reply)
      /\ UNCHANGED << now, env >>

AdminUnban(pin, rawID) ==
  LET reply == adminUnban(access, pin, rawID, nowMs)
  IN  /\ Serve(reply)
      /\ UNCHANGED << now, env >>

AdminBanIP(pin, rawIP, rawMessage) ==
  LET reply == adminBanIP(access, pin, rawIP, rawMessage)
  IN  /\ Serve(reply)
      /\ UNCHANGED << now, env >>

AdminUnbanIP(pin, rawIP) ==
  LET reply == adminUnbanIP(access, pin, rawIP)
  IN  /\ Serve(reply)
      /\ UNCHANGED << now, env >>

AdminLockdown(pin, enabled) ==
  LET reply == adminLockdown(access, pin, enabled)
  IN  /\ Serve(reply)
      /\ UNCHANGED << now, env >>

\* the x-admin-pin header: absent, or the operator's PIN
AdminPins == { << >>, PinAdmin }
\* req.body.pinAttempt: absent, or one of the two PINs with a blank before it
PinAttempts == { << >>, << " " >> \o PinAuth, << " " >> \o PinUnban }

Next ==
  \/ Tick
  \/ \E rawID \in RawClientIDs, ip \in RequestIPs, ua \in HeaderUAs, device \in Devices :
       Hello(rawID, ip, ua, device)
  \/ \E rawID \in RawClientIDs, ip \in RequestIPs, ua \in HeaderUAs, p \in PinAttempts :
       Auth(rawID, ip, ua, p)
  \/ \E rawID \in RawClientIDs, ip \in RequestIPs, ua \in HeaderUAs : Check(rawID, ip, ua)
  \/ \E rawID \in RawClientIDs, ip \in RequestIPs, ua \in HeaderUAs, p \in PinAttempts :
       Unban(rawID, ip, ua, p)
  \/ \E pin \in AdminPins, rawID \in RawClientIDs : AdminVerify(pin, rawID)
  \/ \E pin \in AdminPins, rawID \in RawClientIDs : AdminSuspicious(pin, rawID)
  \/ \E pin \in AdminPins, rawID \in RawClientIDs : AdminClearSuspicious(pin, rawID)
  \/ \E pin \in AdminPins, rawID \in RawClientIDs, m \in RawBanMessages : AdminBan(pin, rawID, m)
  \/ \E pin \in AdminPins, rawID \in RawClientIDs : AdminUnban(pin, rawID)
  \/ \E pin \in AdminPins, rawIP \in RawIPs, m \in RawIPBanMessages : AdminBanIP(pin, rawIP, m)
  \/ \E pin \in AdminPins, rawIP \in RawIPs : AdminUnbanIP(pin, rawIP)
  \/ \E pin \in AdminPins, enabled \in BOOLEAN : AdminLockdown(pin, enabled)

Spec == Init /\ [][Next]_vars

\* ------------------------------------------------------------- site actions
MsgHello == << "h", "i" >>
\* req.body.message of /api/broadcast: blank, or a text with blanks around it
RawMessages == { << " " >>, << " " >> \o MsgHello \o << " " >> }

\* state.json as an earlier run of the server left it: missing, or with the lockdown
\* on and a broadcast made at time 0
StartFiles ==
  { << >>,
    << [ lockdown |-> [ enabled |-> TRUE, updatedAt |-> 0 ],
         broadcast |-> << [ message |-> MsgHello, createdAt |-> 0,
                            expiresAt |-> BroadcastTTL ] >> ] >> }

\* loadState(); pruneExpiredBroadcast(); at start-up
StartSite(file, t) ==
  pruneExpiredBroadcast([ state |-> loadState(file), stateFile |-> file,
                          wssClients |-> << >>, writable |-> TRUE ], t)

ServeSite(s) ==
  /\ state' = s.state
  /\ stateFile' = s.stateFile
  /\ wssClients' = s.wssClients
  /\ UNCHANGED diskOK

\* every open socket can still be handed a message (the bound of the model)
Room == \A id \in DOMAIN wssClients : Len(wssClients[id].sent) < MaxSent

SiteInit ==
  /\ lockdown = FALSE
  /\ clients = << >>
  /\ ipBans = << >>
  /\ accessFile = << >>
  /\ now = 1
  /\ env \in { [ ADMIN_PIN |-> PinAdmin, AUTH_PIN |-> PinAuth, UNBAN_PIN |-> PinUnban ],
                [ ADMIN_PIN |-> << >>, AUTH_PIN |-> << >>, UNBAN_PIN |-> << >> ] }
  /\ last = NoCheck
  /\ \E file \in StartFiles :
       LET s == StartSite(file, 1) IN
       /\ state = s.state
       /\ stateFile = s.stateFile
       /\ wssClients = s.wssClients
  /\ diskOK = TRUE
  /\ out = NoResponse

\* the clock moves by a millisecond, or by a day less a millisecond
ClockSteps == { 1, BroadcastTTL - 1 }
Elapse(d) ==
  /\ (now + d) % BroadcastTTL <= MaxTime
  /\ now + d <= MaxDays * BroadcastTTL + MaxTime
  /\ now' = now + d
  /\ out' = NoResponse
  /\ UNCHANGED << accessVars, env, state, stateFile, wssClients, diskOK >>

Health ==
  /\ ServeSite(health(site, nowMs).site)
  /\ out' = NoResponse
  /\ UNCHANGED << accessVars, now, env >>

GetState ==
  LET reply == getState(site, nowMs)
  IN  /\ ServeSite(reply.site)
      /\ out' = [ op |-> "state", before |-> state.broadcast, body |-> reply.body ]
      /\ UNCHANGED << accessVars, now, env >>

Broadcast(pin, rawMessage) ==
  /\ Room
  /\ ServeSite(broadcast(site, pin, rawMessage, nowMs).site)
  /\ out' = NoResponse
  /\ UNCHANGED << accessVars, now, env >>

SiteLockdown(pin) ==
  /\ Room
  /\ ServeSite(siteLockdown(site, pin, nowMs).site)
  /\ out' = NoResponse
  /\ UNCHANGED << accessVars, now, env >>

ClearLockdown(pin) ==
  /\ Room
  /\ ServeSite(clearLockdown(site, pin, nowMs).site)
  /\ out' = NoResponse
  /\ UNCHANGED << accessVars, now, env >>

\* a client opens a WebSocket on /ws
Connection(id) ==
  /\ id \notin DOMAIN wssClients
  /\ ServeSite(connection(site, id, nowMs))
  /\ out' = NoResponse
  /\ UNCHANGED << accessVars, now, env >>

\* a socket of wss.clients starts its closing handshake
StartClosing(id) ==
  /\ id \in DOMAIN wssClients
  /\ wssClients[id].readyState = OPEN
  /\ wssClients' = [ wssClients EXCEPT ![id].readyState = CLOSING ]
  /\ out' = NoResponse
  /\ UNCHANGED << accessVars, now, env, state, stateFile, diskOK >>

\* a socket is closed: the WebSocketServer takes it out of wss.clients
Closed(id) ==
  /\ id \in DOMAIN wssClients
  /\ wssClients' = [ k \in (DOMAIN wssClients) \ { id } |-> wssClients[k] ]
  /\ out' = NoResponse
  /\ UNCHANGED << accessVars, now, env, state, stateFile, diskOK >>

\* from now on send() on this socket throws
SendFails(id) ==
  /\ id \in DOMAIN wssClients
  /\ ~wssClients[id].throws
  /\ wssClients' = [ wssClients EXCEPT ![id].throws = TRUE ]
  /\ out' = NoResponse
  /\ UNCHANGED << accessVars, now, env, state, stateFile, diskOK >>

\* the site routes, one visitor's socket and the clock
SiteNext ==
  \/ \E d \in ClockSteps : Elapse(d)
  \/ Health
  \/ GetState
  \/ \E pin \in AdminPins, m \in RawMessages : Broadcast(pin, m)
  \/ \E pin \in AdminPins : SiteLockdown(pin)
  \/ \E pin \in AdminPins : ClearLockdown(pin)
  \/ Connection(FirstSocket)
  \/ Closed(FirstSocket)

SiteSpec == SiteInit /\ [][SiteNext]_vars

\* the site mutations and the sockets of several visitors, at one instant of the clock
ChannelNext ==
  \/ \E pin \in AdminPins, m \in RawMessages : Broadcast(pin, m)
  \/ \E pin \in AdminPins : SiteLockdown(pin)
  \/ \E pin \in AdminPins : ClearLockdown(pin)
  \/ \E id \in SocketIDs : Connection(id)
  \/ \E id \in SocketIDs : StartClosing(id)
  \/ \E id \in SocketIDs : Closed(id)
  \/ \E id \in SocketIDs : SendFails(id)

ChannelSpec == SiteInit /\ [][ChannelNext]_vars

\* from now on fs.writeFileSync throws (the disk is full, DATA_DIR is read-only)
WritesFail ==
  /\ diskOK
  /\ diskOK' = FALSE
  /\ out' = NoResponse
  /\ UNCHANGED << accessVars, now, env, state, stateFile, wssClients >>

\* fs.writeFileSync succeeds again
WritesRecover ==
  /\ ~diskOK
  /\ diskOK' = TRUE
  /\ out' = NoResponse
  /\ UNCHANGED << accessVars, now, env, state, stateFile, wssClients >>

\* the site routes, one visitor's socket and the clock, on a disk whose writes can fail
StorageNext ==
  \/ Elapse(1)
  \/ GetState
  \/ \E pin \in AdminPins, m \in RawMessages : Broadcast(pin, m)
  \/ \E pin \in AdminPins : SiteLockdown(pin)
  \/ \E pin \in AdminPins : ClearLockdown(pin)
  \/ Connection(FirstSocket)
  \/ Closed(FirstSocket)
  \/ WritesFail
  \/ WritesRecover

StorageSpec == SiteInit /\ [][StorageNext]_vars

\* the x-admin-pin header: absent, the operator's PIN, or another PIN
HeaderPins == AdminPins \cup { PinAuth }

\* every route behind requirePin, the two public routes that ask for a clientID, and
\* one visitor's socket, at one instant of the clock
AdminNext ==
  \/ \E rawID \in RawClientIDs : Hello(rawID, IP1, UAPhone, NoDevice)
  \/ \E rawID \in RawClientIDs, p \in PinAttempts : Unban(rawID, IP1, UAPhone, p)
  \/ \E pin \in HeaderPins, rawID \in RawClientIDs : AdminVerify(pin, rawID)
  \/ \E pin \in HeaderPins, rawID \in RawClientIDs : AdminSuspicious(pin, rawID)
  \/ \E pin \in HeaderPins, rawID \in RawClientIDs : AdminClearSuspicious(pin, rawID)
  \/ \E pin \in HeaderPins, rawID \in RawClientIDs, m \in RawBanMessages : AdminBan(pin, rawID, m)
  \/ \E pin \in HeaderPins, rawID \in RawClientIDs : AdminUnban(pin, rawID)
  \/ \E pin \in HeaderPins, rawIP \in RawIPs, m \in RawIPBanMessages : AdminBanIP(pin, rawIP, m)
  \/ \E pin \in HeaderPins, rawIP \in RawIPs : AdminUnbanIP(pin, rawIP)
  \/ \E pin \in HeaderPins, enabled \in BOOLEAN : AdminLockdown(pin, enabled)
  \/ \E pin \in HeaderPins, m \in RawMessages : Broadcast(pin, m)
  \/ \E pin \in HeaderPins : SiteLockdown(pin)
  \/ \E pin \in HeaderPins : ClearLockdown(pin)
  \/ Connection(FirstSocket)

AdminSpec == Init /\ [][AdminNext]_vars

\* ------------------------------------------------------------------ claims
LastCheck == last.op = "check"
SourceBanned == last.ip \in DOMAIN ipBans
Known(id) == id \in DOMAIN clients

\* C1: a /api/check from an address that has an IPBanRecord answers allowed=false,
\* banned=true, reason "ip_ban" and the stored ban message, whatever the token,
\* the client's status and the access-lockdown flag.
C1_IpBanAnswersStoredMessage ==
  (LastCheck /\ SourceBanned) =>
    /\ last.body.allowed = FALSE
    /\ last.body.banned = TRUE
    /\ last.body.reason = "ip_ban"
    /\ last.body.banMessage = ipBans[last.ip].message

\* C2: under access-lockdown a /api/check answers allowed=true only for a client whose
\* status is verified.
C2_LockdownAllowsOnlyVerified ==
  (LastCheck /\ lockdown /\ last.body.allowed) =>
    (Known(last.clientID) /\ clients[last.clientID].status = "verified")

\* C4: with access-lockdown off and the address not banned, a /api/check for a token
\* without a record answers allowed=true, banned=false, status "unverified", reason
\* "unknown_allowed".
C4_UnknownTokenAnswer ==
  (LastCheck /\ last.clientID # << >> /\ last.statusBefore = "none"
     /\ ~lockdown /\ ~SourceBanned) =>
    /\ last.body.allowed = TRUE
    /\ last.body.banned = FALSE
    /\ last.body.status = "unverified"
    /\ last.body.reason = "unknown_allowed"

\* C5: with access-lockdown on, a /api/check for a token without a record answers
\* allowed=false with reason "lockdown_unknown".
C5_LockdownUnknownTokenAnswer ==
  (LastCheck /\ last.clientID # << >> /\ last.statusBefore = "none"
     /\ lockdown /\ ~SourceBanned) =>
    /\ last.body.allowed = FALSE
    /\ last.body.reason = "lockdown_unknown"

C6_NoTokenDecision ==
  [][ (last'.op = "check" /\ last'.clientID = << >> /\ last'.ip \notin DOMAIN ipBans') =>
        /\ clients' = clients
        /\ last'.body.allowed = ~lockdown'
        /\ last'.body.banned = lockdown'
        /\ last'.body.reason =
             IF lockdown' THEN "missing_client_id" ELSE "missing_client_id_allowed" ]_vars

\* C6 happens: a token-less check was denied under lockdown while a record exists
C6_Witness ==
  /\ LastCheck /\ last.clientID = << >> /\ ~SourceBanned
  /\ lockdown /\ ~last.body.allowed /\ last.body.reason = "missing_client_id"
  /\ Known(ClientA)

CheckStep == \E rawID \in RawClientIDs, ip \in RequestIPs, ua \in HeaderUAs : Check(rawID, ip, ua)
HelloStep ==
  \E rawID \in RawClientIDs, ip \in RequestIPs, ua \in HeaderUAs, device \in Devices :
    Hello(rawID, ip, ua, device)

\* C7: no step that takes a client away from suspicious is a step of /api/check or
\* of /api/hello, whatever the telemetry and the lockdown flag: those two leave a
\* suspicious client suspicious.
C7_SuspiciousIsSticky ==
  [][ \A c \in ClientIDs :
        (Known(c) /\ clients[c].status = "suspicious" /\ clients'[c].status # "suspicious") =>
          ~(CheckStep \/ HelloStep) ]_vars

\* C7 happens: a client stamped suspicious earlier was checked again later, with
\* phone telemetry, and is still suspicious
C7_Witness ==
  /\ LastCheck /\ last.statusBefore = "suspicious"
  /\ clients[last.clientID].status = "suspicious"
  /\ clients[last.clientID].suspiciousAt < now
  /\ clients[last.clientID].ua = UAPhone

\* C8: computeAccessDecision turns a status into suspicious only when the status it
\* found was exactly unverified; a verified or banned client keeps its status and its
\* suspiciousAt stamp.
C8_HeuristicOnlyOnUnverified ==
  (LastCheck /\ last.clientID # << >>) =>
    LET rec == clients[last.clientID] IN
    /\ (rec.status = "suspicious" /\ last.statusAtDecision # "suspicious") =>
         last.statusAtDecision = "unverified"
    /\ last.body.reason = "desktop_unverified_marked_suspicious" =>
         last.statusAtDecision = "unverified"
    /\ last.statusAtDecision \in { "verified", "banned" } =>
         /\ rec.status = last.statusAtDecision
         /\ rec.suspiciousAt = last.suspiciousAtBefore

\* C8 happens: a verified client with desktop telemetry, stamped suspicious at an
\* earlier time, was checked and stayed verified with its old stamp
C8_Witness ==
  /\ LastCheck /\ last.statusAtDecision = "verified"
  /\ isDesktopish(clients[last.clientID])
  /\ clients[last.clientID].status = "verified"
  /\ clients[last.clientID].suspiciousAt > 0
  /\ clients[last.clientID].suspiciousAt < now

\* C9: a record goes from suspicious to verified in one step only by
\* POST /api/admin/verify.
C9_OnlyAdminVerifyLeavesSuspicious ==
  [][ \A c \in ClientIDs :
        (Known(c) /\ clients[c].status = "suspicious" /\ clients'[c].status = "verified") =>
          \E pin \in AdminPins, rawID \in RawClientIDs : AdminVerify(pin, rawID) ]_vars

AdminUnbanStep(c) ==
  \E pin \in AdminPins, rawID \in RawClientIDs :
    /\ requirePin(pin)
    /\ normalizeStr(rawID) = c
    /\ AdminUnban(pin, rawID)

\* a POST /api/unban for client c whose pinAttempt matches the configured UNBAN_PIN
MatchingUnbanStep(c) ==
  \E rawID \in RawClientIDs, ip \in RequestIPs, ua \in HeaderUAs, p \in PinAttempts :
    /\ env.UNBAN_PIN # << >>
    /\ normalizeStr(p) = env.UNBAN_PIN
    /\ normalizeStr(rawID) = c
    /\ Unban(rawID, ip, ua, p)

\* C11: a banned record leaves banned only by going to unverified, and only in a step
\* of an accepted POST /api/admin/unban or of a POST /api/unban with the matching PIN;
\* no other operation changes the status of a banned record.
C11_BannedLeavesOnlyByUnban ==
  [][ \A c \in ClientIDs :
        (Known(c) /\ clients[c].status = "banned" /\ clients'[c].status # "banned") =>
          /\ clients'[c].status = "unverified"
          /\ AdminUnbanStep(c) \/ MatchingUnbanStep(c) ]_vars

C13_BanTwiceUnbanTwice ==
  \A rawID \in RawClientIDs :
    LET c == normalizeStr(rawID) IN
    (requirePin(PinAdmin) /\ Known(c)) =>
      /\ \A m \in RawBanMessages :
           LET reply == adminBan(access, PinAdmin, rawID, m, nowMs) IN
           (clients[c].status = "banned"
              /\ clampStr(m, MaxBanMessageLen) # clients[c].banMessage) =>
             /\ reply.code = 200
             /\ DOMAIN reply.store.clients = DOMAIN clients
             /\ reply.store.clients[c].status = "banned"
             /\ reply.store.clients[c].banMessage = clampStr(m, MaxBanMessageLen)
             /\ reply.store.clients[c].banMessage = Trim(m)
      /\ LET reply == adminUnban(access, PinAdmin, rawID, nowMs) IN
         clients[c].status = "unverified" =>
           /\ reply.code = 200
           /\ DOMAIN reply.store.clients = DOMAIN clients
           /\ reply.store.clients[c].status = "unverified"
           /\ reply.store.clients[c].banMessage = << >>

\* C13 happens: a client banned with one message, for which a second ban with another
\* message is accepted
C13_Witness ==
  /\ requirePin(PinAdmin)
  /\ Known(ClientA) /\ clients[ClientA].status = "banned"
  /\ clients[ClientA].banMessage = MsgSpam
  /\ \E rawID \in RawClientIDs, m \in RawBanMessages :
       /\ clampStr(m, MaxBanMessageLen) = MsgRude
       /\ adminBan(access, PinAdmin, rawID, m, nowMs).store.clients[ClientA].banMessage = MsgRude

\* ------------------------------------------------------- claims: site state
\* the x-admin-pin header is the configured admin secret
PinAccepted(pin) == env.ADMIN_PIN # << >> /\ pin = env.ADMIN_PIN

StateServed == out.op = "state"

\* C14: a broadcast held by the server has expiresAt = createdAt + 86400000; a
\* GET /api/state served when the clock is at or past expiresAt answers broadcast=null,
\* leaves state.broadcast null and state.json equal to the cleared state; a GET served
\* before expiresAt answers the broadcast and leaves it in place.
C14_BroadcastLifecycle ==
  /\ state.broadcast # Null =>
       /\ state.broadcast[1].expiresAt = state.broadcast[1].createdAt + 86400000
       /\ state.broadcast[1].createdAt <= now
  /\ (StateServed /\ out.before # Null) =>
       IF now >= out.before[1].expiresAt
         THEN /\ out.body.broadcast = Null
              /\ state.broadcast = Null
              /\ stateFile = << state >>
         ELSE /\ out.body.broadcast = out.before
              /\ state.broadcast = out.before

\* C14 happens: a broadcast made at time 1 on this run was read at the very millisecond
\* it expires, and the read cleared it in memory and in state.json
C14_Witness ==
  /\ StateServed /\ out.before # Null
  /\ out.before[1].createdAt = 1
  /\ now = 1 + 86400000
  /\ out.body.broadcast = Null
  /\ stateFile = << state >>

\* the messages handed to socket id in this step
NewMessages(id) ==
  LET old == IF id \in DOMAIN wssClients THEN Len(wssClients[id].sent) ELSE 0
  IN  { wssClients'[id].sent[i].msg : i \in (old + 1)..Len(wssClients'[id].sent) }

\* a broadcast field that is null or not yet expired when the step is taken
Unexpired(b) == b = Null \/ b[1].expiresAt > now'

\* C15: no GET /api/state response, no "state" snapshot and no "broadcast" event
\* produced in a step carries a broadcast whose expiresAt is <= the clock of that step.
C15_NoExpiredBroadcastExposed ==
  [][ /\ out'.op = "state" => Unexpired(out'.body.broadcast)
      /\ \A id \in DOMAIN wssClients' :
           \A m \in NewMessages(id) :
             m.type \in { "state", "broadcast" } => Unexpired(m.broadcast) ]_vars

\* C15 happens: the broadcast that state.json held at start-up (with the lockdown of
\* time 0) has been pruned, and the snapshot sent to the visitor carries broadcast=null
C15_Witness ==
  /\ now >= BroadcastTTL
  /\ state.lockdown = [ enabled |-> TRUE, updatedAt |-> 0 ]
  /\ stateFile = << state >>
  /\ FirstSocket \in DOMAIN wssClients
  /\ wssClients[FirstSocket].sent[1].msg.lockdown = state.lockdown
  /\ wssClients[FirstSocket].sent[1].msg.broadcast = Null

\* C16: every socket of wss.clients has been handed exactly one "state" message, as
\* its first message, by a send that did not throw; and the snapshot of a socket that
\* connects carries the lockdown of that moment and the broadcast of that moment, or
\* null if the broadcast has expired.
C16_OneSnapshotFirst ==
  [][ \A id \in DOMAIN wssClients' :
        LET sent == wssClients'[id].sent IN
        /\ Len(sent) >= 1
        /\ sent[1].msg.type = "state"
        /\ ~sent[1].threw
        /\ \A i \in 2..Len(sent) : sent[i].msg.type # "state"
        /\ id \notin DOMAIN wssClients =>
             sent = << [ msg |-> [ type |-> "state",
                                   lockdown |-> state.lockdown,
                                   broadcast |->
                                     IF state.broadcast # Null
                                          /\ now >= state.broadcast[1].expiresAt
                                       THEN Null ELSE state.broadcast ],
                         threw |-> FALSE ] >> ]_vars

\* C16 happens: a visitor whose snapshot carried a live broadcast was then handed a
\* broadcast event and a lockdown event
C16_Witness ==
  /\ FirstSocket \in DOMAIN wssClients
  /\ Len(wssClients[FirstSocket].sent) = 3
  /\ wssClients[FirstSocket].sent[1].msg.type = "state"
  /\ wssClients[FirstSocket].sent[1].msg.broadcast # Null
  /\ wssClients[FirstSocket].sent[2].msg.type = "broadcast"
  /\ wssClients[FirstSocket].sent[3].msg.type = "lockdown"

\* every socket that was open has one more message, ev, at the end of what it was
\* handed before; every other socket has what it had; no socket came or went
FanOut(ev) ==
  /\ DOMAIN wssClients' = DOMAIN wssClients
  /\ \A id \in DOMAIN wssClients :
       IF wssClients[id].readyState = OPEN
         THEN /\ Len(wssClients'[id].sent) = Len(wssClients[id].sent) + 1
              /\ SubSeq(wssClients'[id].sent, 1, Len(wssClients[id].sent)) = wssClients[id].sent
              /\ wssClients'[id].sent[Len(wssClients'[id].sent)].msg = ev
         ELSE wssClients'[id].sent = wssClients[id].sent

\* C17: an accepted POST /api/broadcast with a non-empty message hands one "broadcast"
\* event with the new broadcast to every open socket, an accepted POST /api/lockdown or
\* /api/clear-lockdown one "lockdown" event with the new enabled and updatedAt; the
\* event comes after everything the socket was handed before, and a socket that is not
\* open is handed nothing.
C17_OneEventPerMutation ==
  [][ \A pin \in AdminPins :
        PinAccepted(pin) =>
          /\ \A m \in RawMessages :
               (Trim(m) # << >> /\ Broadcast(pin, m)) =>
                 /\ state'.broadcast =
                      << [ message |-> Trim(m), createdAt |-> now,
                           expiresAt |-> now + 86400000 ] >>
                 /\ FanOut([ type |-> "broadcast", broadcast |-> state'.broadcast ])
          /\ SiteLockdown(pin) =>
               /\ state'.lockdown = [ enabled |-> TRUE, updatedAt |-> now ]
               /\ FanOut([ type |-> "lockdown", enabled |-> TRUE, updatedAt |-> now ])
          /\ ClearLockdown(pin) =>
               /\ state'.lockdown = [ enabled |-> FALSE, updatedAt |-> now ]
               /\ FanOut([ type |-> "lockdown", enabled |-> FALSE, updatedAt |-> now ]) ]_vars

\* C17 happens: two open sockets were both handed the broadcast event of the broadcast
\* now held and then the lockdown event of the lockdown now held
C17_Witness ==
  /\ DOMAIN wssClients = SocketIDs
  /\ \A id \in SocketIDs :
       /\ wssClients[id].readyState = OPEN
       /\ Len(wssClients[id].sent) = 3
       /\ wssClients[id].sent[2].msg = [ type |-> "broadcast", broadcast |-> state.broadcast ]
       /\ wssClients[id].sent[3].msg =
            [ type |-> "lockdown", enabled |-> TRUE, updatedAt |-> now ]

\* socket f is closing, or its send throws
Failing(f) ==
  /\ f \in DOMAIN wssClients
  /\ wssClients[f].readyState = CLOSING \/ wssClients[f].throws

\* the fan-out of an event of this type went past socket f: every other open socket
\* was handed the event, and f is still in wss.clients in the readyState it had
Survives(f, type) ==
  /\ f \in DOMAIN wssClients'
  /\ wssClients'[f].readyState = wssClients[f].readyState
  /\ \A id \in (DOMAIN wssClients) \ { f } :
       wssClients[id].readyState = OPEN =>
         /\ id \in DOMAIN wssClients'
         /\ Len(wssClients'[id].sent) = Len(wssClients[id].sent) + 1
         /\ wssClients'[id].sent[Len(wssClients'[id].sent)].msg.type = type
         /\ wssClients'[id].sent[Len(wssClients'[id].sent)].threw = wssClients[id].throws

\* C18: when a socket is closing or its send throws, an accepted site mutation still
\* hands its event to every other open socket, the request is answered 200 with
\* ok=true, and the failing socket stays in wss.clients with the readyState it had.
C18_SendFailureIsLocal ==
  [][ \A f \in SocketIDs, pin \in AdminPins :
        (Failing(f) /\ PinAccepted(pin)) =>
          /\ \A m \in RawMessages :
               (Trim(m) # << >> /\ Broadcast(pin, m)) =>
                 /\ Survives(f, "broadcast")
                 /\ broadcast(site, pin, m, nowMs).code = 200
                 /\ broadcast(site, pin, m, nowMs).body.ok
          /\ SiteLockdown(pin) =>
               /\ Survives(f, "lockdown")
               /\ siteLockdown(site, pin, nowMs).code = 200
               /\ siteLockdown(site, pin, nowMs).body.ok
          /\ ClearLockdown(pin) =>
               /\ Survives(f, "lockdown")
               /\ clearLockdown(site, pin, nowMs).code = 200
               /\ clearLockdown(site, pin, nowMs).body.ok ]_vars

\* C18 happens: the send of a broadcast event threw on the first socket, which is
\* still open in wss.clients, and the second socket was handed the same event
C18_Witness ==
  /\ DOMAIN wssClients = SocketIDs
  /\ \A id \in SocketIDs :
       /\ wssClients[id].readyState = OPEN
       /\ Len(wssClients[id].sent) = 2
       /\ wssClients[id].sent[2].msg = [ type |-> "broadcast", broadcast |-> state.broadcast ]
  /\ wssClients[1].sent[2].threw
  /\ ~wssClients[2].sent[2].threw

\* ------------------------------------------------- claims: rejected requests
\* the answer 401 {ok:false, error:"Unauthorized"} of an access route that left the
\* access store as it was
Denied(reply) ==
  /\ reply.store = access
  /\ reply.code = 401
  /\ reply.body.ok = FALSE
  /\ reply.body.error = "Unauthorized"

\* the same answer of a site route that left state, state.json and the sockets as
\* they were
SiteDenied(reply) ==
  /\ reply.site = site
  /\ reply.code = 401
  /\ reply.body.ok = FALSE
  /\ reply.body.error = "Unauthorized"

\* C19: in every state, each of the eleven routes behind requirePin, called with an
\* absent or non-matching x-admin-pin or while ADMIN_PIN is not configured, answers
\* 401 {ok:false, error:"Unauthorized"} and leaves the access store, the site state,
\* state.json and what every socket was handed as they were.
C19_UnauthorizedChangesNothing ==
  \A pin \in HeaderPins :
    ~PinAccepted(pin) =>
      /\ \A rawID \in RawClientIDs :
           /\ Denied(adminVerify(access, pin, rawID, nowMs))
           /\ Denied(adminSuspicious(access, pin, rawID, nowMs))
           /\ Denied(adminClearSuspicious(access, pin, rawID, nowMs))
           /\ Denied(adminUnban(access, pin, rawID, nowMs))
           /\ \A m \in RawBanMessages : Denied(adminBan(access, pin, rawID, m, nowMs))
      /\ \A rawIP \in RawIPs :
           /\ Denied(adminUnbanIP(access, pin, rawIP))
           /\ \A m \in RawIPBanMessages : Denied(adminBanIP(access, pin, rawIP, m))
      /\ \A enabled \in BOOLEAN : Denied(adminLockdown(access, pin, enabled))
      /\ \A m \in RawMessages : SiteDenied(broadcast(site, pin, m, nowMs))
      /\ SiteDenied(siteLockdown(site, pin, nowMs))
      /\ SiteDenied(clearLockdown(site, pin, nowMs))

\* C19 happens: with the admin PIN configured, a banned client, a live broadcast and a
\* visitor connected, an unban that carries another PIN and a broadcast without the
\* header are answered 401
C19_Witness ==
  /\ env.ADMIN_PIN # << >>
  /\ Known(ClientA) /\ clients[ClientA].status = "banned"
  /\ state.broadcast # Null
  /\ FirstSocket \in DOMAIN wssClients
  /\ wssClients[FirstSocket].readyState = OPEN
  /\ \E rawID \in RawClientIDs :
       /\ normalizeStr(rawID) = ClientA
       /\ adminUnban(access, PinAuth, rawID, nowMs).code = 401
  /\ \E m \in RawMessages :
       /\ Trim(m) # << >>
       /\ broadcast(site, << >>, m, nowMs).code = 401

\* a required field that is absent or blank
Blanks == { << >>, << " " >> }

\* a client-error answer {ok:false, error} of an access route that left the access
\* store as it was
Refused(reply) ==
  /\ reply.store = access
  /\ reply.code \in 400..499
  /\ reply.body.ok = FALSE
  /\ reply.body.error # ""

\* the same answer of a site route that left state, state.json and the sockets as
\* they were
SiteRefused(reply) ==
  /\ reply.site = site
  /\ reply.code \in 400..499
  /\ reply.body.ok = FALSE
  /\ reply.body.error # ""

\* C20: in every state, a request without its required field (clientID of hello,
\* unban and the five admin client routes; ip of ban-ip and unban-ip; message of
\* broadcast) is answered with a 4xx status and {ok:false, error}, and leaves the
\* access store, the site state, state.json and what every socket was handed as they
\* were, whatever x-admin-pin it carries.
C20_MissingFieldChangesNothing ==
  \A blank \in Blanks :
    /\ \A ip \in RequestIPs, ua \in HeaderUAs :
         /\ \A device \in Devices : Refused(hello(access, blank, ip, ua, device, nowMs))
         /\ \A p \in PinAttempts : Refused(unban(access, blank, ip, ua, p, nowMs))
    /\ \A pin \in HeaderPins :
         /\ Refused(adminVerify(access, pin, blank, nowMs))
         /\ Refused(adminSuspicious(access, pin, blank, nowMs))
         /\ Refused(adminClearSuspicious(access, pin, blank, nowMs))
         /\ Refused(adminUnban(access, pin, blank, nowMs))
         /\ \A m \in RawBanMessages : Refused(adminBan(access, pin, blank, m, nowMs))
         /\ Refused(adminUnbanIP(access, pin, blank))
         /\ \A m \in RawIPBanMessages : Refused(adminBanIP(access, pin, blank, m))
         /\ SiteRefused(broadcast(site, pin, blank, nowMs))

\* C20 happens: with the admin PIN configured, a record in the store and a visitor
\* connected, a broadcast with a blank message and a ban with a blank clientID, both
\* with the right PIN, are answered 400
C20_Witness ==
  /\ PinAccepted(PinAdmin)
  /\ Known(ClientA)
  /\ FirstSocket \in DOMAIN wssClients
  /\ wssClients[FirstSocket].readyState = OPEN
  /\ broadcast(site, PinAdmin, << " " >>, nowMs).code = 400
  /\ adminBan(access, PinAdmin, << " " >>, MsgSpam, nowMs).code = 400

\* ------------------------------------------------- claims: the access routes
\* the status of a client as the server reports it: a token without a record is
\* unverified, and the legacy "unbanned" is unverified
EffectiveStatus(store, id) ==
  IF id \in DOMAIN store.clients
    THEN normalizeLegacyStatus(store.clients[id].status)
    ELSE "unverified"

C26_AllowedIsNotBanned ==
  \A rawID \in RawClientIDs, ip \in RequestIPs :
    LET d == computeAccessDecision(access, ip, Trim(rawID), nowMs).decision IN
    /\ d.allowed = ~d.banned
    /\ \A ua \in HeaderUAs :
         LET body == check(access, rawID, ip, ua, nowMs).body IN
         body.allowed = ~body.banned

\* C26 happens: a check of a client that is not banned was denied under access-lockdown
\* and answered banned=true
C26_Witness ==
  /\ LastCheck /\ last.clientID # << >> /\ ~SourceBanned
  /\ lockdown
  /\ clients[last.clientID].status = "unverified"
  /\ last.body.reason = "lockdown_not_verified"
  /\ last.body.banned /\ ~last.body.allowed

\* C27: after a /api/check with a non-empty token the token has a record whose ipLast
\* is the source address of the request, whatever the decision; the decision was taken
\* on a known record, so its reason is neither "unknown_allowed" nor "lockdown_unknown".
C27_CheckRecordsEveryToken ==
  (LastCheck /\ last.clientID # << >>) =>
    /\ Known(last.clientID)
    /\ clients[last.clientID].ipLast = last.ip
    /\ last.statusAtDecision # "none"
    /\ last.body.reason \notin { "unknown_allowed", "lockdown_unknown" }

\* C27 happens: the first check of a token came from a banned address, was answered
\* "ip_ban", and left a record with that address
C27_Witness ==
  /\ LastCheck /\ last.clientID # << >>
  /\ last.statusBefore = "none"
  /\ SourceBanned /\ last.body.reason = "ip_ban"
  /\ Known(last.clientID)
  /\ clients[last.clientID].ipLast = last.ip

\* C29: every record whose status is not banned has an empty banMessage.
C29_BanMessageOnlyWhileBanned ==
  \A c \in DOMAIN clients : clients[c].status # "banned" => clients[c].banMessage = << >>

\* a User-Agent header of the desktop class
DesktopHeader(ua) ==
  \/ includes(toLowerCase(ua), << "w","i","n","d","o","w","s" >>)
  \/ includes(toLowerCase(ua), << "m","a","c"," ","o","s" >>)

\* the step is /api/check for a non-empty token whose record was unverified when
\* computeAccessDecision was entered
CheckedUnverified == 
  /\ last'.op = "check"
  /\ last'.clientID # << >>
  /\ last'.statusAtDecision = "unverified"

accessAfter ==
  [ lockdown |-> lockdown', clients |-> clients', ipBans |-> ipBans', file |-> accessFile',
    writable |-> diskOK' ]

\* /api/check answers every request after the step as it did before it
SameDecisions ==
  \A rawID \in RawClientIDs, ip \in RequestIPs, ua \in HeaderUAs :
    check(accessAfter, rawID, ip, ua, nowMs).body = check(access, rawID, ip, ua, nowMs).body

\* C22: an accepted POST /api/admin/lockdown sets accessStore.lockdown to the value
\* asked for and changes no record, no IP ban, nothing of the site state or its file,
\* and hands no socket a message; an accepted POST /api/lockdown or
\* /api/clear-lockdown changes nothing of the access store, keeps the broadcast, and
\* /api/check answers every request as before.
C22_LockdownsAreIndependent ==
  [][ /\ \A pin \in HeaderPins, enabled \in BOOLEAN :
           (PinAccepted(pin) /\ AdminLockdown(pin, enabled)) =>
             /\ lockdown' = enabled
             /\ clients' = clients /\ ipBans' = ipBans
             /\ state' = state /\ stateFile' = stateFile
             /\ wssClients' = wssClients
      /\ \A pin \in HeaderPins :
           (PinAccepted(pin) /\ (SiteLockdown(pin) \/ ClearLockdown(pin))) =>
             /\ lockdown' = lockdown
             /\ clients' = clients /\ ipBans' = ipBans /\ accessFile' = accessFile
             /\ state'.broadcast = state.broadcast
             /\ SameDecisions ]_vars

\* C22 happens: the access-lockdown is on while the site lockdown, set and cleared
\* again, is off; the open socket was handed both lockdown events, an IP ban and a
\* client record are in the store
C22_Witness ==
  /\ lockdown
  /\ ~state.lockdown.enabled /\ state.lockdown.updatedAt = now
  /\ stateFile = << state >>
  /\ ipBans # << >>
  /\ Known(ClientA)
  /\ FirstSocket \in DOMAIN wssClients
  /\ \E i, j \in 1..Len(wssClients[FirstSocket].sent) :
       /\ i < j
       /\ wssClients[FirstSocket].sent[i].msg = LockdownMsg(TRUE, now)
       /\ wssClients[FirstSocket].sent[j].msg = LockdownMsg(FALSE, now)

\* C23: after an accepted GET /api/state, a new WebSocket connection, an accepted
\* /api/broadcast with a message, /api/lockdown or /api/clear-lockdown, neither
\* state.broadcast nor the broadcast in state.json has expiresAt <= the time of the
\* operation.
C23_EveryOperationPrunes ==
  [][ ( \/ GetState
        \/ Connection(FirstSocket)
        \/ \E pin \in AdminPins :
             /\ PinAccepted(pin)
             /\ \/ SiteLockdown(pin)
                \/ ClearLockdown(pin)
                \/ \E m \in RawMessages : Trim(m) # << >> /\ Broadcast(pin, m) )
      => /\ Unexpired(state'.broadcast)
         /\ stateFile' # << >> => Unexpired(stateFile'[1].broadcast) ]_vars

\* the indices of the messages handed to a socket that carry the site lockdown
LockdownCarriers(sent) ==
  { i \in 1..Len(sent) : sent[i].msg.type \in { "state", "lockdown" } }

\* the value of enabled in the last of them
LastLockdownSeen(sent) ==
  LET m == sent[MaxOf(LockdownCarriers(sent))].msg
  IN  IF m.type = "state" THEN m.lockdown.enabled ELSE m.enabled

\* C28: for every socket of wss.clients that is OPEN and on which send() does not
\* throw, the last message handed to it that carries the site lockdown (the snapshot
\* or a lockdown event) has the value of state.lockdown.enabled.
C28_SubscriberSeesCurrentLockdown ==
  \A id \in DOMAIN wssClients :
    (wssClients[id].readyState = OPEN /\ ~wssClients[id].throws) =>
      /\ LockdownCarriers(wssClients[id].sent) # {}
      /\ LastLockdownSeen(wssClients[id].sent) = state.lockdown.enabled

\* C28 happens: two open sockets without a failure; the first connected while the
\* lockdown was on and was then handed a broadcast and the event that cleared the
\* lockdown, the second connected after that
C28_Witness ==
  /\ DOMAIN wssClients = SocketIDs
  /\ \A id \in SocketIDs : wssClients[id].readyState = OPEN /\ ~wssClients[id].throws
  /\ ~state.lockdown.enabled
  /\ Len(wssClients[1].sent) = 3
  /\ wssClients[1].sent[1].msg.type = "state"
  /\ wssClients[1].sent[1].msg.lockdown.enabled
  /\ wssClients[1].sent[2].msg.type = "broadcast"
  /\ wssClients[1].sent[3].msg = LockdownMsg(FALSE, now)
  /\ Len(wssClients[2].sent) = 1
  /\ wssClients[2].sent[1].msg = StateMsg(state)

\* --------------------------------------------------- claims: durable storage
\* C24: in every state, between two requests, access.json as loadAccess() would read
\* it equals accessStore: the lockdown flag, every record with its status, lastSeenAt
\* and telemetry, and the IP bans.
C24_AccessFileIsTheStore ==
  loadAccess(accessFile) = AccessDoc(access)

\* what state.json holds after the step is what the message says
Durable(m) ==
  /\ stateFile' # << >>
  /\ IF m.type = "lockdown"
       THEN stateFile'[1].lockdown = [ enabled |-> m.enabled, updatedAt |-> m.updatedAt ]
       ELSE stateFile'[1].broadcast = m.broadcast

\* C25: every broadcast or lockdown event handed to a socket in a step describes a
\* state that state.json holds when the step ends: the mutation was written before the
\* event went out.
C25_EventsDescribeDurableState ==
  [][ \A id \in DOMAIN wssClients' :
        \A m \in NewMessages(id) :
          m.type \in { "broadcast", "lockdown" } => Durable(m) ]_vars

====
